---- MODULE Spec2Model ----
(***************************************************************************)
(* Model of the API smoke-test pipeline of pkonda01/event-driven-poc:      *)
(*   - the runner process, src/tests/api_tests.py (APITestRunner, main)    *)
(*   - the result processor, src/functions/TestResultProcessor/__init__.py *)
(* Python values are rendered as follows.  A dict is a record (a missing   *)
(* key is a missing field, read through Get with the code's default).      *)
(* None is the string None for string fields and the empty sequence for    *)
(* response_status.  A float success rate p/t*100 is the exact rational    *)
(* <<p*100, t>>; for every t below 400 the float comparison with 80 agrees *)
(* with the rational one.  An exception is the name of its class, and      *)
(* `except C` catches the classes whose Bases contain C.                   *)
(***************************************************************************)
EXTENDS Integers, Sequences, FiniteSets, TLC

VARIABLES
    pc,                     \* position of the runner process in main()
    environment,            \* APITestRunner.environment
    HAS_SERVICE_BUS,        \* module flag set by the import at load time
    service_bus_connection, \* APITestRunner.service_bus_connection
    probed,                 \* what open()/json.load met on each path tried, in order
    test_configs,           \* the list load_test_config returned
    outcomes,               \* what each request met, one entry per executed test
    results,                \* APITestRunner.results
    summary,                \* the dict run_all_tests returned
    publish_log,            \* what send_results_to_service_bus did
    queue,                  \* messages delivered to topic api-test-results
    saved,                  \* whether test_results.json was written
    exit_code,              \* the process's exit status
    traceback,              \* the exception that ended the runner, and where it rose
    cpc,                    \* position of one invocation of the processor's main()
    msg,                    \* the Service Bus message that triggered it
    webhook_url,            \* SLACK_WEBHOOK_URL
    parsed,                 \* test_results = json.loads(message_body)
    notification,           \* summary = process_test_results(test_results)
    message,                \* the Slack message send_notification built
    posts,                  \* number of requests.post calls made
    clog                    \* what the invocation logged about the notification

runnerVars == <<pc, environment, HAS_SERVICE_BUS, service_bus_connection, probed,
                test_configs, outcomes, results, summary, publish_log, queue,
                saved, exit_code, traceback>>
consumerVars == <<cpc, msg, webhook_url, parsed, notification, message, posts, clog>>
vars == <<runnerVars, consumerVars>>

\* ---------------------------------------------------------------- bounds

\* Longest list of test definitions a config file holds.
MaxTests == 2

\* Longest test_results list of a message payload.
MaxPayloadResults == 6

\* Largest failed_tests count of a message payload.
MaxFailedCount == 2

\* ---------------------------------------------------------- Python values

None == "None"

\* dict.get(key, default)
Get(d, key, default) == IF key \in DOMAIN d THEN d[key] ELSE default

\* The exception classes the two programs meet, each with its base classes.
Bases(exc) ==
    CASE exc = "FileNotFoundError" -> {"FileNotFoundError", "OSError", "Exception"}
      [] exc = "PermissionError" -> {"PermissionError", "OSError", "Exception"}
      [] exc = "OSError" -> {"OSError", "Exception"}
      [] exc = "json.JSONDecodeError" -> {"json.JSONDecodeError", "ValueError", "Exception"}
      [] exc = "simplejson.JSONDecodeError" ->
            {"simplejson.JSONDecodeError", "ValueError", "Exception"}
      [] exc = "ValueError" -> {"ValueError", "Exception"}
      [] exc = "AttributeError" -> {"AttributeError", "Exception"}
      [] exc = "requests.Timeout" ->
            {"requests.Timeout", "requests.RequestException", "OSError", "Exception"}
      [] exc = "requests.ConnectionError" ->
            {"requests.ConnectionError", "requests.RequestException", "OSError", "Exception"}
      [] exc = "requests.HTTPError" ->
            {"requests.HTTPError", "requests.RequestException", "OSError", "Exception"}
      [] exc = "ServiceBusError" -> {"ServiceBusError", "Exception"}
      [] OTHER -> {exc}

Catches(class, exc) == class \in Bases(exc)

\* ------------------------------------------------------------ Config Loader

\* config_paths of load_test_config, by environment.
config_paths ==
    IF environment = "kubernetes"
    THEN <<"/config/test_config.json", "/workspace/tests/test_config.json",
           "tests/test_config.json", "test_config.json">>
    ELSE <<"tests/test_config.json", "test_config.json", "../tests/test_config.json">>

\* What open(path) followed by json.load(f) can meet.
FileKinds == {"missing", "unreadable", "malformed", "valid"}

\* The exception `with open(path) ... json.load(f)` raises on a file of this kind.
OpenAndParse(kind) ==
    CASE kind = "missing" -> "FileNotFoundError"
      [] kind = "unreadable" -> "PermissionError"
      [] kind = "malformed" -> "json.JSONDecodeError"
      [] OTHER -> "none"

\* The class the loop of load_test_config catches and continues on.
LoaderCaught == "FileNotFoundError"

\* The hardcoded fallback config.
DefaultTests ==
    <<[name |-> 1, method |-> "GET", expected_status |-> 200, timeout |-> 10],
      [name |-> 2, method |-> "GET", expected_status |-> 200, timeout |-> 10,
       validate_json |-> TRUE]>>

\* The loop over config_paths from path i on: fs[j] is the kind of the file at
\* config_paths[j].  Returns the exception that left the loop (or none), the
\* index of the file loaded (0: none) and the number of paths opened.
RECURSIVE ProbeFrom(_, _, _)
ProbeFrom(fs, i, n) ==
    IF i > n THEN [exc |-> "none", loaded |-> 0, opened |-> n]
    ELSE LET e == OpenAndParse(fs[i]) IN
         IF e = "none" THEN [exc |-> "none", loaded |-> i, opened |-> i]
         ELSE IF Catches(LoaderCaught, e) THEN ProbeFrom(fs, i + 1, n)
         ELSE [exc |-> e, loaded |-> 0, opened |-> i]

\* The test definitions a config file may hold: a supported method (in lower
\* case) with and without expected_status and validate_json, and a method
\* the executor does not support.
TestDefs ==
    { [method |-> "get"],
      [method |-> "get", expected_status |-> 404],
      [method |-> "get", validate_json |-> TRUE],
      [method |-> "PATCH"] }

\* A definition with its name: the name of the i-th test of a file is i.
Named(d, i) == [k \in DOMAIN d \cup {"name"} |-> IF k = "name" THEN i ELSE d[k]]

TestLists ==
    UNION { { [i \in 1..n |-> Named(l[i], i)] : l \in [1..n -> TestDefs] } : n \in 0..MaxTests }

\* ------------------------------------------------------------ Test Executor

\* APITestRunner.test_id, fixed at construction.
test_id == "test-id"

SupportedMethods == {"GET", "POST", "PUT", "DELETE"}

\* str.upper() on the method names in use.
Upper(m) ==
    CASE m = "get" -> "GET"
      [] m = "post" -> "POST"
      [] m = "put" -> "PUT"
      [] m = "delete" -> "DELETE"
      [] m = "patch" -> "PATCH"
      [] OTHER -> m

\* test_result['error'] before any failure is recorded.
NoError == [text |-> None]

\* What the one request of a test can meet.  no_request: the method is not
\* supported and no request is made.  A response carries its status code and
\* whether its body is JSON; for a body that is not, parse_exc is the class
\* response.json() raises, which depends on the installed requests/simplejson
\* (one class is enough for a test that never calls response.json()).
StatusCodes == {200, 404}
ParseErrors == {"json.JSONDecodeError", "simplejson.JSONDecodeError"}
Responses ==
    { [kind |-> "response", status_code |-> c, body |-> "json", parse_exc |-> "none"] :
        c \in StatusCodes }
    \cup { [kind |-> "response", status_code |-> c, body |-> "not_json", parse_exc |-> e] :
        c \in StatusCodes, e \in ParseErrors }
Outcomes(cfg) ==
    IF Upper(cfg.method) \notin SupportedMethods THEN {[kind |-> "no_request"]}
    ELSE {[kind |-> "timeout"], [kind |-> "transport"]}
         \cup { o \in Responses :
                    \/ Get(cfg, "validate_json", FALSE)
                    \/ o.parse_exc \in {"none", "json.JSONDecodeError"} }

\* test_config.get('expected_status', 200)
ExpectedStatus(cfg) == Get(cfg, "expected_status", 200)

\* test_config.get('timeout', 30)
Timeout(cfg) == Get(cfg, "timeout", 30)

\* The class the inner try around response.json() catches.
JsonValidationCaught == "json.JSONDecodeError"

\* Mutant: the last handler catches only the HTTP library's errors.
ExecutorCaughtRequestsOnly == "requests.RequestException"

\* The class the last handler of run_single_test catches.
ExecutorCaught == "Exception"

\* The dict test_result as first built.
InitialResult(cfg) ==
    [test_name |-> cfg.name, test_id |-> test_id, method |-> cfg.method,
     status |-> "failed", error |-> NoError, response_status |-> <<>>]

\* Mutant: any non-error status passes, whatever status is expected.
CheckStatusAnySuccess(cfg, r, code) ==
    IF code < 400
    THEN [r EXCEPT !.status = "passed"]
    ELSE [r EXCEPT !.status = "failed",
                   !.error = [text |-> "Expected {expected_status}, got {response.status_code}",
                              expected |-> Get(cfg, "expected_status", 200), got |-> code]]

\* The status check on a received response.
CheckStatus(cfg, r, code) ==
    IF code = ExpectedStatus(cfg)
    THEN [r EXCEPT !.status = "passed"]
    ELSE [r EXCEPT !.status = "failed",
                   !.error = [text |-> "Expected {expected_status}, got {response.status_code}",
                              expected |-> ExpectedStatus(cfg), got |-> code]]

\* The additional JSON validation: exc is the exception that leaves it.
ValidateJson(cfg, r, o) ==
    IF ~Get(cfg, "validate_json", FALSE) \/ o.parse_exc = "none"
    THEN [exc |-> "none", r |-> r]
    ELSE IF Catches(JsonValidationCaught, o.parse_exc)
    THEN [exc |-> "none",
          r |-> [r EXCEPT !.status = "failed", !.error = [text |-> "Invalid JSON response"]]]
    ELSE [exc |-> o.parse_exc, r |-> r]

\* The body of the try block: the exception that leaves it (or none) and
\* test_result as it stands then.
TryBody(cfg, o) ==
    LET r0 == InitialResult(cfg) IN
    IF Upper(cfg.method) \notin SupportedMethods THEN [exc |-> "ValueError", r |-> r0]
    ELSE IF o.kind = "timeout" THEN [exc |-> "requests.Timeout", r |-> r0]
    ELSE IF o.kind = "transport" THEN [exc |-> "requests.ConnectionError", r |-> r0]
    ELSE LET r1 == [r0 EXCEPT !.response_status = <<o.status_code>>] IN
         ValidateJson(cfg, CheckStatus(cfg, r1, o.status_code), o)

\* str(e) of an exception that left the try block.
StrOf(cfg, exc) ==
    IF exc = "ValueError"
    THEN [text |-> "Unsupported method: {method}", method |-> Upper(cfg.method)]
    ELSE [text |-> "str(e)", exc |-> exc]

\* run_single_test: the try block and its two handlers.  raised is the
\* exception that leaves the function (none: it returns result).
run_single_test(cfg, o) ==
    LET b == TryBody(cfg, o) IN
    IF b.exc = "none" THEN [raised |-> "none", result |-> b.r]
    ELSE IF Catches("requests.Timeout", b.exc)
    THEN [raised |-> "none",
          result |-> [b.r EXCEPT !.error = [text |-> "Request timeout after {timeout}s",
                                            timeout |-> Timeout(cfg)]]]
    ELSE IF Catches(ExecutorCaught, b.exc)
    THEN [raised |-> "none", result |-> [b.r EXCEPT !.error = StrOf(cfg, b.exc)]]
    ELSE [raised |-> b.exc, result |-> b.r]

\* -------------------------------------------------------------- Suite Runner

NoSummary == [none |-> TRUE]

\* Mutant: every test that got a response counts as passed.
CountPassedByResponse(rs) == Cardinality({i \in 1..Len(rs) : rs[i].response_status # <<>>})

\* len([r for r in self.results if r['status'] == 'passed'])
CountPassed(rs) == Cardinality({i \in 1..Len(rs) : rs[i].status = "passed"})

\* failed_tests = total_tests - passed_tests
FailedTests(total, passed) == total - passed

\* Mutant: the rate is left a fraction of 1.
SuccessRateAsFraction(passed, total) == IF total > 0 THEN <<passed, total>> ELSE <<0, 1>>

\* success_rate = (passed_tests / total_tests * 100) if total_tests > 0 else 0
SuccessRate(passed, total) == IF total > 0 THEN <<passed * 100, total>> ELSE <<0, 1>>

\* The summary dict of run_all_tests.
Summarise(rs) ==
    LET total_tests == Len(rs)
        passed_tests == CountPassed(rs)
    IN [test_suite_id |-> test_id,
        total_tests |-> total_tests,
        passed_tests |-> passed_tests,
        failed_tests |-> FailedTests(total_tests, passed_tests),
        success_rate |-> SuccessRate(passed_tests, total_tests),
        environment |-> environment,
        test_results |-> rs]

\* --------------------------------------------------- Result Publisher, main

\* What sender.send_messages (and the client set-up before it) can raise.
DeliveryErrors == {"none", "ServiceBusError", "OSError"}

\* Mutant: the handler catches only the queue client's own errors.
PublisherCaughtClientOnly == "ServiceBusError"

\* The class the handler of send_results_to_service_bus catches.
PublisherCaught == "Exception"

\* What writing test_results.json can raise.
WriteErrors == {"none", "PermissionError"}

\* The class the handler around the local file write catches.
SaveCaught == "Exception"

\* The exit status main() chooses.
ExitCode(s) == IF s.failed_tests > 0 THEN 1 ELSE 0

\* An exception that leaves main(): the interpreter prints it and exits 1.
Crash(where, exc) ==
    /\ pc' = "crashed"
    /\ exit_code' = 1
    /\ traceback' = <<where, exc>>

\* ------------------------------------------------------------ runner actions

IdleConsumer ==
    /\ cpc = "idle"
    /\ msg = [kind |-> "none"]
    /\ webhook_url = None
    /\ parsed = NoSummary
    /\ notification = NoSummary
    /\ message = NoSummary
    /\ posts = 0
    /\ clog = <<>>

Init ==
    /\ pc = "start"
    /\ environment \in {"kubernetes", "local-machine"}
    /\ HAS_SERVICE_BUS \in BOOLEAN
    /\ service_bus_connection \in {None, "Endpoint=sb://"}
    /\ probed = <<>>
    /\ test_configs = <<>>
    /\ outcomes = <<>>
    /\ results = <<>>
    /\ summary = NoSummary
    /\ publish_log = "none"
    /\ queue = <<>>
    /\ saved = FALSE
    /\ exit_code = -1
    /\ traceback = <<>>
    /\ IdleConsumer

\* run_all_tests, first part: test_configs = self.load_test_config()
LoadTestConfig ==
    /\ pc = "start"
    /\ \E fs \in [1..Len(config_paths) -> FileKinds], l \in TestLists :
         LET p == ProbeFrom(fs, 1, Len(config_paths)) IN
         /\ probed' = [i \in 1..p.opened |-> fs[i]]
         /\ IF p.exc # "none"
            THEN Crash("load_test_config", p.exc) /\ UNCHANGED test_configs
            ELSE /\ test_configs' = IF p.loaded = 0 THEN DefaultTests ELSE l
                 /\ pc' = "running"
                 /\ UNCHANGED <<exit_code, traceback>>
    /\ UNCHANGED <<environment, HAS_SERVICE_BUS, service_bus_connection, outcomes,
                   results, summary, publish_log, queue, saved, consumerVars>>

\* Mutant: the loop walks the definitions from the last to the first.
CurrentTestReversed(cfgs, rs) == cfgs[Len(cfgs) - Len(rs)]

\* `for test_config in test_configs`: the definition of the turn that follows
\* the results collected so far.
CurrentTest(cfgs, rs) == cfgs[Len(rs) + 1]

\* run_all_tests, one turn of the loop over test_configs.
RunSingleTest ==
    /\ pc = "running"
    /\ Len(results) < Len(test_configs)
    /\ LET cfg == CurrentTest(test_configs, results) IN
       \E o \in Outcomes(cfg) :
         LET t == run_single_test(cfg, o) IN
         /\ outcomes' = Append(outcomes, o)
         /\ IF t.raised # "none"
            THEN Crash("run_single_test", t.raised) /\ UNCHANGED results
            ELSE /\ results' = Append(results, t.result)
                 /\ UNCHANGED <<pc, exit_code, traceback>>
    /\ UNCHANGED <<environment, HAS_SERVICE_BUS, service_bus_connection, probed,
                   test_configs, summary, publish_log, queue, saved, consumerVars>>

\* run_all_tests, after the loop: the summary.
CalculateSummary ==
    /\ pc = "running"
    /\ Len(results) = Len(test_configs)
    /\ summary' = Summarise(results)
    /\ pc' = "summarised"
    /\ UNCHANGED <<environment, HAS_SERVICE_BUS, service_bus_connection, probed,
                   test_configs, outcomes, results, publish_log, queue, saved,
                   exit_code, traceback, consumerVars>>

\* send_results_to_service_bus(summary)
SendResultsToServiceBus ==
    /\ pc = "summarised"
    /\ IF ~HAS_SERVICE_BUS
       THEN /\ publish_log' = "skipped: client not available"
            /\ pc' = "published"
            /\ UNCHANGED <<queue, exit_code, traceback>>
       ELSE IF service_bus_connection = None
       THEN /\ publish_log' = "skipped: connection string not set"
            /\ pc' = "published"
            /\ UNCHANGED <<queue, exit_code, traceback>>
       ELSE \E e \in DeliveryErrors :
              IF e = "none"
              THEN /\ queue' = Append(queue, summary)
                   /\ publish_log' = "sent"
                   /\ pc' = "published"
                   /\ UNCHANGED <<exit_code, traceback>>
              ELSE IF Catches(PublisherCaught, e)
              THEN /\ publish_log' = "failed"
                   /\ pc' = "published"
                   /\ UNCHANGED <<queue, exit_code, traceback>>
              ELSE /\ publish_log' = "raised"
                   /\ Crash("send_results_to_service_bus", e)
                   /\ UNCHANGED queue
    /\ UNCHANGED <<environment, HAS_SERVICE_BUS, service_bus_connection, probed,
                   test_configs, outcomes, results, summary, saved, consumerVars>>

\* main(), after the publisher: the local file write and the exit.
SaveAndExit ==
    /\ pc = "published"
    /\ \E e \in WriteErrors :
         IF e = "none"
         THEN /\ saved' = TRUE
              /\ pc' = "exited"
              /\ exit_code' = ExitCode(summary)
              /\ UNCHANGED traceback
         ELSE IF Catches(SaveCaught, e)
         THEN /\ saved' = FALSE
              /\ pc' = "exited"
              /\ exit_code' = ExitCode(summary)
              /\ UNCHANGED traceback
         ELSE saved' = FALSE /\ Crash("main", e)
    /\ UNCHANGED <<environment, HAS_SERVICE_BUS, service_bus_connection, probed,
                   test_configs, outcomes, results, summary, publish_log, queue,
                   consumerVars>>

Next ==
    \/ LoadTestConfig
    \/ RunSingleTest
    \/ CalculateSummary
    \/ SendResultsToServiceBus
    \/ SaveAndExit

Spec == Init /\ [][Next]_vars

\* ------------------------------------------------- Result Processor: inputs

\* The statuses a payload's results carry; the processor reads two as failures.
PayloadStatuses == {"passed", "failed", "error"}

\* The i-th result of a payload: its name is i.
PayloadResult(i, st) ==
    [test_name |-> i, status |-> st,
     error |-> IF st = "passed" THEN NoError ELSE [text |-> "failure", of |-> i]]

PayloadResultLists ==
    UNION { { [i \in 1..n |-> PayloadResult(i, l[i])] : l \in [1..n -> PayloadStatuses] } :
            n \in 0..MaxPayloadResults }

\* success_rate values of a payload: 0, 75, 79.99, 80, 83.3.., 100.
PayloadRates == {<<0, 1>>, <<300, 4>>, <<7999, 100>>, <<400, 5>>, <<500, 6>>, <<100, 1>>}

Payloads ==
    { [total_tests |-> Len(rs), passed_tests |-> CountPassed(rs), failed_tests |-> f,
       success_rate |-> r, test_results |-> rs] :
        rs \in PayloadResultLists, f \in 0..MaxFailedCount, r \in PayloadRates }

\* The message of one delivery: its body is missing (empty), is not JSON, is
\* JSON but not an object (so not a SuiteSummary), or is a SuiteSummary.
Messages ==
    {[kind |-> "missing"], [kind |-> "not_json"], [kind |-> "not_object"]}
    \cup { [kind |-> "summary", payload |-> p] : p \in Payloads }

\* ------------------------------------------------ Result Processor: functions

\* msg.get_body().decode('utf-8'), json.loads(message_body) and the first
\* test_results.get: the exception raised, or none.
Deserialize(m) ==
    CASE m.kind = "missing" -> "json.JSONDecodeError"
      [] m.kind = "not_json" -> "json.JSONDecodeError"
      [] m.kind = "not_object" -> "AttributeError"
      [] OTHER -> "none"

\* Mutant: success_rate > n.
RateAbove(rate, n) == rate[1] > n * rate[2]

\* success_rate >= n, on the rational <<num, den>>.
RateAtLeast(rate, n) == rate[1] >= n * rate[2]

\* The success rate from which a run with failures is a partial success.
PartialThreshold == 80

\* The overall status, alert level and color.
StatusOf(failed_tests, success_rate) ==
    IF failed_tests = 0
    THEN [status |-> "ALL TESTS PASSED", alert_level |-> "success", color |-> "good"]
    ELSE IF RateAtLeast(success_rate, PartialThreshold)
    THEN [status |-> "PARTIAL SUCCESS", alert_level |-> "warning", color |-> "warning"]
    ELSE [status |-> "TESTS FAILED", alert_level |-> "error", color |-> "danger"]

\* result.get('status') in ['failed', 'error']
IsFailure(result) == Get(result, "status", None) \in {"failed", "error"}

\* The loop that extracts the failed test details, over results i..Len(rs).
RECURSIVE FailedTestDetails(_, _)
FailedTestDetails(rs, i) ==
    IF i > Len(rs) THEN <<>>
    ELSE LET rest == FailedTestDetails(rs, i + 1) IN
         IF IsFailure(rs[i])
         THEN <<[name |-> Get(rs[i], "test_name", "Unknown"),
                 error |-> Get(rs[i], "error", [text |-> "No error message"])]>> \o rest
         ELSE rest

\* The number of failures the summary keeps.
MaxFailedDetails == 5

\* Mutant: the list is not cut.
SliceNothing(s, n) == s

\* list[:n]
Slice(s, n) == SubSeq(s, 1, IF Len(s) < n THEN Len(s) ELSE n)

\* process_test_results(test_results)
process_test_results(tr) ==
    LET failed_tests == Get(tr, "failed_tests", 0)
        success_rate == Get(tr, "success_rate", <<0, 1>>)
        st == StatusOf(failed_tests, success_rate)
    IN [status |-> st.status,
        alert_level |-> st.alert_level,
        color |-> st.color,
        total_tests |-> Get(tr, "total_tests", 0),
        passed_tests |-> Get(tr, "passed_tests", 0),
        failed_tests |-> failed_tests,
        success_rate |-> success_rate,
        failed_details |-> Slice(FailedTestDetails(Get(tr, "test_results", <<>>), 1),
                                 MaxFailedDetails)]

\* The Slack message: text, color, and the lines of the Failed Tests field
\* (no such field when there are no failed details).
SlackMessage(n) ==
    [text |-> n.status, color |-> n.color,
     passed |-> n.passed_tests, failed |-> n.failed_tests,
     failed_lines |-> [i \in 1..Len(n.failed_details) |->
                          <<n.failed_details[i].name, n.failed_details[i].error>>]]

\* What requests.post and response.raise_for_status can raise.
PostErrors == {"none", "requests.HTTPError", "requests.ConnectionError", "ValueError"}

\* Mutant: only the HTTP library's errors are handled.
OnPostErrorRequestsOnly(e) ==
    IF Catches("requests.RequestException", e) THEN "logged: failed to send" ELSE "raised"

\* The handlers of send_notification: what a failed post leads to.
OnPostError(e) ==
    IF Catches("requests.RequestException", e) THEN "logged: failed to send"
    ELSE IF Catches("Exception", e) THEN "logged: unexpected error"
    ELSE "raised"

\* `if not webhook_url`
WebhookUnset(url) == url = None \/ url = ""

\* ---------------------------------------------- Result Processor: actions

IdleRunner ==
    /\ pc = "idle"
    /\ environment = "local-machine"
    /\ HAS_SERVICE_BUS = FALSE
    /\ service_bus_connection = None
    /\ probed = <<>>
    /\ test_configs = <<>>
    /\ outcomes = <<>>
    /\ results = <<>>
    /\ summary = NoSummary
    /\ publish_log = "none"
    /\ queue = <<>>
    /\ saved = FALSE
    /\ exit_code = -1
    /\ traceback = <<>>

ConsumerInit ==
    /\ IdleRunner
    /\ cpc = "triggered"
    /\ msg \in Messages
    /\ webhook_url \in {None, "https://hooks.slack.com/"}
    /\ parsed = NoSummary
    /\ notification = NoSummary
    /\ message = NoSummary
    /\ posts = 0
    /\ clog = <<>>

\* main(), lines 17-21: the body is decoded and parsed.
ParseMessage ==
    /\ cpc = "triggered"
    /\ IF Deserialize(msg) = "none"
       THEN parsed' = msg.payload /\ cpc' = "parsed" /\ UNCHANGED clog
       ELSE /\ cpc' = "raised"
            /\ clog' = Append(clog, "error processing test results")
            /\ UNCHANGED parsed
    /\ UNCHANGED <<msg, webhook_url, notification, message, posts, runnerVars>>

\* main(), line 24
ProcessTestResults ==
    /\ cpc = "parsed"
    /\ notification' = process_test_results(parsed)
    /\ cpc' = "processed"
    /\ UNCHANGED <<msg, webhook_url, parsed, message, posts, clog, runnerVars>>

\* main(), lines 27-36: send_notification, store_results, and the handler
\* that logs and re-raises whatever left them.
SendNotification ==
    /\ cpc = "processed"
    /\ IF WebhookUnset(webhook_url)
       THEN /\ clog' = Append(clog, "logged: summary")
            /\ cpc' = "completed"
            /\ UNCHANGED <<message, posts>>
       ELSE \E e \in PostErrors :
              /\ message' = SlackMessage(notification)
              /\ posts' = posts + 1
              /\ IF e = "none"
                 THEN clog' = Append(clog, "notification sent") /\ cpc' = "completed"
                 ELSE IF OnPostError(e) = "raised"
                 THEN /\ clog' = Append(clog, "error processing test results")
                      /\ cpc' = "raised"
                 ELSE clog' = Append(clog, OnPostError(e)) /\ cpc' = "completed"
    /\ UNCHANGED <<msg, webhook_url, parsed, notification, runnerVars>>

ConsumerNext ==
    \/ ParseMessage
    \/ ProcessTestResults
    \/ SendNotification

ConsumerSpec == ConsumerInit /\ [][ConsumerNext]_vars

\* -------------------------------------------------------------- properties

HaveSummary == "total_tests" \in DOMAIN summary

\* C1: once run_all_tests has returned a summary the process never ends on an
\* exception, and it exits with 0 when failed_tests is 0 and with 1 when
\* failed_tests is positive, whatever the publisher and the file write met.
ExitCodeFollowsFailedTests ==
    HaveSummary =>
        /\ pc # "crashed"
        /\ pc = "exited" => exit_code = (IF summary.failed_tests = 0 THEN 0 ELSE 1)
        /\ pc # "exited" => exit_code = -1

\* C1 witness: all tests passed, delivery raised, the file write failed, exit 0.
ExitZeroAfterFailedPublishAndSave ==
    /\ pc = "exited"
    /\ exit_code = 0
    /\ summary.total_tests > 0
    /\ publish_log = "failed"
    /\ ~saved

\* C2: in every summary passed_tests + failed_tests = total_tests, total_tests
\* is the number of collected results and passed_tests the number of results
\* whose status is passed.
SummaryCountsAddUp ==
    HaveSummary =>
        /\ summary.passed_tests + summary.failed_tests = summary.total_tests
        /\ summary.total_tests = Len(summary.test_results)
        /\ summary.passed_tests =
              Cardinality({i \in DOMAIN summary.test_results :
                              summary.test_results[i].status = "passed"})

\* C2 witness: a summary of two results, one passed and one failed on a
\* response with the wrong status.
SummaryOfOnePassedOneFailed ==
    /\ HaveSummary
    /\ summary.total_tests = 2
    /\ summary.passed_tests = 1
    /\ summary.failed_tests = 1
    /\ \E i \in 1..2 : /\ summary.test_results[i].status = "failed"
                       /\ summary.test_results[i].response_status # <<>>

\* C3: every executed test yields exactly one result and no exception leaves
\* run_single_test; without a response (unsupported method, timeout, transport
\* failure) the result is failed with a non-empty error.
ExecutorAlwaysReturnsResult ==
    /\ Len(results) = Len(outcomes)
    /\ traceback # <<>> => traceback[1] # "run_single_test"
    /\ \A i \in 1..Len(results) :
          outcomes[i].kind # "response" =>
              /\ results[i].status = "failed"
              /\ results[i].error.text \notin {None, ""}

\* C3 witness: a suite ran to its summary over an unsupported method and a
\* transport failure.
SuiteSurvivesUnsupportedAndTransport ==
    /\ pc = "summarised"
    /\ \E i, j \in 1..Len(results) :
          /\ outcomes[i].kind = "no_request"
          /\ outcomes[j].kind = "transport"

\* C4: a test with validate_json whose response body is not JSON is failed
\* with a validation error (the fixed text, or the parser's own message),
\* whatever exception the parser raised and even when the status matched.
InvalidJsonAlwaysFails ==
    \A i \in 1..Len(results) :
        ( /\ Get(test_configs[i], "validate_json", FALSE)
          /\ outcomes[i].kind = "response"
          /\ outcomes[i].body = "not_json" ) =>
            /\ results[i].status = "failed"
            /\ results[i].error.text \in {"Invalid JSON response", "str(e)"}

\* C5: load_test_config never raises; it returns the tests of the first
\* candidate that is readable and parses, and the default tests when all
\* candidates were tried and none was.
LoadTestConfigNeverFails ==
    pc # "start" =>
        /\ ~(traceback # <<>> /\ traceback[1] = "load_test_config")
        /\ pc # "crashed" =>
              IF \E i \in 1..Len(probed) : probed[i] = "valid"
              THEN probed[Len(probed)] = "valid" /\ test_configs \in TestLists
              ELSE Len(probed) = Len(config_paths) /\ test_configs = DefaultTests

\* C6: on a response, a test that does not ask for body validation is passed
\* exactly when the status code equals expected_status (200 when not given),
\* and is otherwise failed with the error Expected {expected}, got {actual}.
StatusCheckDecidesOutcome ==
    \A i \in 1..Len(results) :
        LET cfg == test_configs[i]
            o == outcomes[i]
            expected == IF "expected_status" \in DOMAIN cfg THEN cfg.expected_status ELSE 200
        IN  (o.kind = "response" /\ "validate_json" \notin DOMAIN cfg) =>
              IF o.status_code = expected
              THEN results[i].status = "passed"
              ELSE /\ results[i].status = "failed"
                   /\ results[i].error =
                        [text |-> "Expected {expected_status}, got {response.status_code}",
                         expected |-> expected, got |-> o.status_code]

\* C6 witness: one test passed on the default 200 although its body is not
\* JSON, another failed on 200 where 404 was expected.
PassedOnDefaultFailedOnMismatch ==
    \E i, j \in 1..Len(results) :
        /\ "validate_json" \notin DOMAIN test_configs[i]
        /\ "expected_status" \notin DOMAIN test_configs[i]
        /\ outcomes[i].kind = "response"
        /\ outcomes[i].status_code = 200
        /\ outcomes[i].body = "not_json"
        /\ results[i].status = "passed"
        /\ "validate_json" \notin DOMAIN test_configs[j]
        /\ outcomes[j].kind = "response"
        /\ "expected_status" \in DOMAIN test_configs[j]
        /\ test_configs[j].expected_status = 404
        /\ outcomes[j].status_code = 200
        /\ results[j].status = "failed"

\* C7: the processor labels a payload success (good) when failed_tests is 0,
\* partial (warning) when failed_tests > 0 and success_rate >= 80, and failure
\* (danger) when failed_tests > 0 and success_rate < 80.
StatusLabelMapping ==
    "color" \in DOMAIN notification =>
        LET f == parsed.failed_tests
            r == parsed.success_rate
        IN  /\ f = 0 => notification.alert_level = "success" /\ notification.color = "good"
            /\ (f > 0 /\ r[1] >= 80 * r[2]) =>
                  notification.alert_level = "warning" /\ notification.color = "warning"
            /\ (f > 0 /\ r[1] < 80 * r[2]) =>
                  notification.alert_level = "error" /\ notification.color = "danger"

\* C7 witness: one failure at a success rate of exactly 80 is labelled partial.
PartialAtExactlyEighty ==
    /\ "color" \in DOMAIN notification
    /\ parsed.failed_tests = 1
    /\ parsed.success_rate = <<400, 5>>
    /\ notification.color = "warning"

\* C8: an invocation raises exactly when the payload is missing or cannot be
\* deserialized into a summary; otherwise it completes: with no webhook URL it
\* logs the summary and posts nothing, with one it posts once, whatever the
\* post met.
InvocationRaisesOnlyOnBadPayload ==
    /\ posts <= 1
    /\ cpc = "raised" => msg.kind # "summary" /\ posts = 0
    /\ msg.kind # "summary" => cpc \in {"triggered", "raised"}
    /\ cpc = "completed" =>
          IF webhook_url = None
          THEN posts = 0 /\ clog = <<"logged: summary">>
          ELSE posts = 1 /\ Len(clog) = 1

\* C8 witness: the post failed on an error outside the HTTP library, which
\* was logged, and the invocation completed.
CompletedAfterFailedPost ==
    /\ cpc = "completed"
    /\ posts = 1
    /\ clog = <<"logged: unexpected error">>

\* C9: success_rate is 0 when total_tests is 0, else passed_tests / total_tests
\* * 100, and lies between 0 and 100.
SuccessRateFormula ==
    HaveSummary =>
        LET r == summary.success_rate
            t == summary.total_tests
            p == summary.passed_tests
        IN  /\ r[2] > 0
            /\ t = 0 => r[1] = 0
            /\ t > 0 => r[1] * t = p * 100 * r[2]
            /\ 0 <= r[1] /\ r[1] <= 100 * r[2]

\* C9 witness: the summary of an empty test list has rate 0.
RateZeroOnEmptySuite ==
    /\ HaveSummary
    /\ summary.total_tests = 0
    /\ summary.success_rate[1] = 0
    /\ probed # <<>>

\* The positions of the payload's failed results (status failed or error).
PayloadFailures == {j \in 1..Len(parsed.test_results) :
                       parsed.test_results[j].status \in {"failed", "error"}}

\* C10: failed_details has at most 5 entries, and its i-th entry is the i-th
\* failed result of the payload; the Failed Tests lines of the Slack message
\* are those entries.
FailureDetailsCappedAtFive ==
    "failed_details" \in DOMAIN notification =>
        LET fd == notification.failed_details
            rs == parsed.test_results
        IN  /\ Len(fd) <= 5
            /\ Len(fd) = (IF Cardinality(PayloadFailures) > 5 THEN 5
                          ELSE Cardinality(PayloadFailures))
            /\ \A i \in 1..Len(fd) :
                  \E j \in PayloadFailures :
                      /\ Cardinality({k \in PayloadFailures : k <= j}) = i
                      /\ fd[i].name = rs[j].test_name
                      /\ fd[i].error = rs[j].error
            /\ "failed_lines" \in DOMAIN message =>
                  /\ Len(message.failed_lines) = Len(fd)
                  /\ \A i \in 1..Len(fd) :
                        message.failed_lines[i] = <<fd[i].name, fd[i].error>>

\* C10 witness: six results failed, five details kept and posted.
SixFailedFivePosted ==
    /\ "failed_details" \in DOMAIN notification
    /\ Cardinality(PayloadFailures) = 6
    /\ Len(notification.failed_details) = 5
    /\ posts = 1
    /\ Len(message.failed_lines) = 5

\* C11: the executor is invoked once per definition, in config order and
\* without retry: at every point of the run there is one request and one
\* result per definition handled so far, result i is that of definition i, and
\* the summary holds exactly these results, one per definition, each with the
\* summary's suite id.
OneResultPerDefinitionInOrder ==
    /\ Len(outcomes) = Len(results)
    /\ Len(results) <= Len(test_configs)
    /\ \A i \in 1..Len(results) :
          /\ results[i].test_name = test_configs[i].name
          /\ results[i].method = test_configs[i].method
    /\ HaveSummary =>
          /\ summary.test_results = results
          /\ Len(summary.test_results) = Len(test_configs)
          /\ \A i \in 1..Len(summary.test_results) :
                summary.test_results[i].test_id = summary.test_suite_id

\* C11 witness: a summary over two different definitions, the first failed
\* without a request and the second passed, in that order.
SummaryInConfigOrder ==
    /\ HaveSummary
    /\ Len(test_configs) = 2
    /\ test_configs[1].method = "PATCH"
    /\ test_configs[2].method = "get"
    /\ summary.test_results[1].method = "PATCH"
    /\ summary.test_results[1].status = "failed"
    /\ summary.test_results[2].method = "get"
    /\ summary.test_results[2].status = "passed"

====
